---- MODULE Spec2Model ----
(***************************************************************************)
(* A model of scripts/granola.py: the local meeting store (save_meeting,   *)
(* find_meeting_dir), the sync loop (cmd_sync) and the metadata filter     *)
(* (filter_meetings); format_transcript is also checked on its own.       *)
(*                                                                         *)
(* Python strings are sequences of one-character strings, so that slicing, *)
(* prefix and substring tests are computed as the code computes them.      *)
(* A value that may be None is a record [t, s]: None or Str(chars).        *)
(* A file that may be absent is a sequence of length 0 (absent) or 1.      *)
(***************************************************************************)
EXTENDS Integers, Sequences, FiniteSets, TLC

VARIABLES
    root,      \* the storage root: its directories, in iterdir() order
    last,      \* the last store operation: its input and what it returned
    repeat,    \* how the last save relates to the save right before it
    resolved,  \* the last find_meeting_dir lookup made by cmd_show / cmd_get
    createdFor,\* history: <<directory name, id, title>> of every directory creation
    sdocs,     \* cmd_sync: the documents fetch_documents returned
    si,        \* cmd_sync: number of documents already processed
    spc,       \* cmd_sync: position inside the current save_meeting call
    starget,   \* cmd_sync: the directory the current save_meeting writes
    sfetched,  \* cmd_sync: what fetch_transcript returned for the document
    sfetches,  \* cmd_sync: number of transcript requests issued in the run
    sforce,    \* cmd_sync: args.force
    synced,    \* cmd_sync: counter of written documents
    skipped,   \* cmd_sync: counter of skipped documents
    slog,      \* cmd_sync: per document, <<fetches issued, fetch failed>>
    fmeetings, \* filter: the metadata list given to filter_meetings
    fpreds,    \* filter: the two predicates under test
    fres,      \* filter: results of the three filter_meetings calls
    tdoc,      \* format: the document given to format_transcript
    tfetched,  \* format: the transcript_data given to format_transcript
    tout       \* format: the lines format_transcript returned

vars == <<root, last, repeat, resolved, createdFor, sdocs, si, spc, starget, sfetched,
          sfetches, sforce, synced, skipped, slog, fmeetings, fpreds, fres,
          tdoc, tfetched, tout>>

storeVars  == <<root, last, repeat, resolved, createdFor>>
syncVars   == <<sdocs, si, spc, starget, sfetched, sfetches, sforce, synced, skipped, slog>>
filterVars == <<fmeetings, fpreds, fres>>
fmtVars    == <<tdoc, tfetched, tout>>

----------------------------------------------------------------------------
(* Python values *)

None == [t |-> "none", s |-> <<>>]
\* a key that the dict does not have
Absent == [t |-> "absent", s |-> <<>>]
Str(s) == [t |-> "str", s |-> s]

\* truthiness of an optional string: None and "" are falsy
Truthy(v) == v.t = "str" /\ v.s # <<>>

\* `v or d` for an optional string v and a string d
OrElse(v, d) == IF Truthy(v) THEN v.s ELSE d

NoFile == <<>>
File(c) == <<c>>

Min(a, b) == IF a < b THEN a ELSE b

\* s[:n]
Slice(s, n) == SubSeq(s, 1, Min(n, Len(s)))

\* needle in hay
Contains(hay, needle) ==
    \E i \in 0..(Len(hay) - Len(needle)) :
        SubSeq(hay, i + 1, i + Len(needle)) = needle

\* s.startswith(p)
StartsWith(s, p) == Len(p) <= Len(s) /\ SubSeq(s, 1, Len(p)) = p

\* str.lower() on the letters the model uses
LowerChar(c) ==
    CASE c = "A" -> "a" [] c = "B" -> "b" [] c = "T" -> "t" [] c = "M" -> "m"
      [] c = "U" -> "u" [] c = "O" -> "o" [] c = "S" -> "s" [] c = "Z" -> "z"
      [] OTHER -> c
Lower(s) == [i \in 1..Len(s) |-> LowerChar(s[i])]

RECURSIVE LStrip(_, _)
LStrip(s, chars) ==
    IF s # <<>> /\ Head(s) \in chars THEN LStrip(Tail(s), chars) ELSE s

RECURSIVE RStrip(_, _)
RStrip(s, chars) ==
    IF s # <<>> /\ s[Len(s)] \in chars
    THEN RStrip(SubSeq(s, 1, Len(s) - 1), chars) ELSE s

Strip(s, chars) == RStrip(LStrip(s, chars), chars)

Whitespace == {" ", "\t", "\n", "\r"}

\* literals of the program
UnknownDate == <<"u","n","k","n","o","w","n","-","d","a","t","e">>
Untitled == <<"U","n","t","i","t","l","e","d">>
UntitledMeeting == Untitled \o <<" ","M","e","e","t","i","n","g">>
Me == <<"M","e">>
Other == <<"O","t","h","e","r">>
Unknown == <<"U","n","k","n","o","w","n">>

----------------------------------------------------------------------------
(* People helpers *)

NoPerson == [kind |-> "dict", name |-> None, email |-> None]
NoPeople == [kind |-> "none", creator |-> NoPerson, members |-> <<>>]

\* name and email of a person record, those that are truthy, in that order
PersonIds(p) ==
    (IF Truthy(p.name) THEN <<p.name.s>> ELSE <<>>)
    \o (IF Truthy(p.email) THEN <<p.email.s>> ELSE <<>>)

RECURSIVE AttendeeIds(_)
AttendeeIds(ms) ==
    IF ms = <<>> THEN <<>>
    ELSE (IF Head(ms).kind = "dict" THEN PersonIds(Head(ms))
          ELSE <<Head(ms).name.s>>) \o AttendeeIds(Tail(ms))

RECURSIVE ListIds(_)
ListIds(ms) ==
    IF ms = <<>> THEN <<>>
    ELSE (IF Head(ms).kind = "dict" THEN PersonIds(Head(ms)) ELSE <<>>)
         \o ListIds(Tail(ms))

\* `not people_data`: None, {} and [] are falsy
PeopleFalsy(p) ==
    \/ p.kind = "none"
    \/ p.kind = "list" /\ p.members = <<>>

\* extract_people: <<creator_name, identifiers>>
extract_people(p) ==
    IF PeopleFalsy(p) THEN <<Me, <<>> >>
    ELSE IF p.kind = "dict"
         THEN << IF Truthy(p.creator.name) THEN p.creator.name.s ELSE Me,
                 PersonIds(p.creator) \o AttendeeIds(p.members) >>
         ELSE << Me, ListIds(p.members) >>

RECURSIVE DictNames(_)
DictNames(ms) ==
    IF ms = <<>> THEN <<>>
    ELSE (IF Head(ms).kind = "dict"
          THEN (IF Truthy(Head(ms).name) THEN <<Head(ms).name.s>> ELSE <<>>)
          ELSE <<Head(ms).name.s>>) \o DictNames(Tail(ms))

RECURSIVE ListNames(_)
ListNames(ms) ==
    IF ms = <<>> THEN <<>>
    ELSE (IF Head(ms).kind = "dict"
          THEN << IF Head(ms).name.t = "str" THEN Head(ms).name.s
                  ELSE IF Head(ms).email.t = "str" THEN Head(ms).email.s
                  ELSE Unknown >>
          ELSE <<>>) \o ListNames(Tail(ms))

\* get_attendee_names
get_attendee_names(p) ==
    IF PeopleFalsy(p) THEN <<>>
    ELSE IF p.kind = "dict"
         THEN (IF Truthy(p.creator.name) THEN <<p.creator.name.s>> ELSE <<>>)
              \o DictNames(p.members)
         ELSE ListNames(p.members)

\* matches_participant
matches_participant(p, query) ==
    LET ids == extract_people(p)[2]
    IN  \E i \in 1..Len(ids) : Contains(Lower(ids[i]), Lower(query))

----------------------------------------------------------------------------
(* Transcript formatting *)

\* one line of transcript.md: k names the f-string, a and b are its fields
Line(k, a, b) == [k |-> k, a |-> a, b |-> b]

RECURSIVE JoinNames(_)
JoinNames(names) ==
    IF names = <<>> THEN <<>>
    ELSE IF Len(names) = 1 THEN names[1]
    ELSE names[1] \o <<",", " ">> \o JoinNames(Tail(names))

\* a value inside an f-string: str(None) is "None"
FormatValue(v) == IF v.t = "str" THEN v.s ELSE <<"N","o","n","e">>

\* segment.get("speaker", "Unknown"): the default is taken only when the
\* key is missing
SpeakerOf(seg) == IF seg.speaker.t = "absent" THEN Unknown ELSE FormatValue(seg.speaker)

RECURSIVE ChapterSegmentLines(_)
ChapterSegmentLines(segs) ==
    IF segs = <<>> THEN <<>>
    ELSE <<Line("seg", SpeakerOf(Head(segs)), Head(segs).text)>>
         \o ChapterSegmentLines(Tail(segs))

RECURSIVE ChapterLines(_)
ChapterLines(chs) ==
    IF chs = <<>> THEN <<>>
    ELSE (IF Truthy(Head(chs).title)
          THEN <<Line("h2", Head(chs).title.s, <<>>)>> ELSE <<>>)
         \o ChapterSegmentLines(Head(chs).transcript)
         \o ChapterLines(Tail(chs))

FlatSpeaker(seg, creator_name) ==
    IF seg.source = "microphone" THEN creator_name
    ELSE IF seg.source = "system" THEN Other
    ELSE SpeakerOf(seg)

RECURSIVE FlatLines(_, _)
FlatLines(segs, creator_name) ==
    IF segs = <<>> THEN <<>>
    ELSE (IF Head(segs).text # <<>>
          THEN <<Line("seg", FlatSpeaker(Head(segs), creator_name), Head(segs).text)>>
          ELSE <<>>)
         \o FlatLines(Tail(segs), creator_name)

\* transcript_data or doc.get("transcript") or []
FlatChoice(doc, transcript_data) ==
    IF transcript_data # <<>> THEN transcript_data ELSE doc.transcript

format_transcript(doc, transcript_data) ==
    LET created == OrElse(doc.created_at, <<>>)
        creator_name == extract_people(doc.people)[1]
        names == get_attendee_names(doc.people)
        transcript == FlatChoice(doc, transcript_data)
    IN  <<Line("h1", OrElse(doc.title, UntitledMeeting), <<>>),
          Line("date", IF created # <<>> THEN Slice(created, 10) ELSE Unknown, <<>>)>>
        \o (IF names # <<>> THEN <<Line("attendees", JoinNames(names), <<>>)>> ELSE <<>>)
        \o <<Line("sep", <<>>, <<>>)>>
        \o (IF transcript = <<>> THEN ChapterLines(doc.chapters)
            ELSE FlatLines(transcript, creator_name))

----------------------------------------------------------------------------
(* Folder names *)

max_length == 50
IdPrefixLen == 8
DateLen == 10

Hostile == {"<", ">", ":", "\"", "/", "\\", "|", "?", "*"}
StripChars == {"-", " "}

\* re.sub(r'[<>:"/\\|?*]', "-", name)
ReplaceHostile(s) == [i \in 1..Len(s) |-> IF s[i] \in Hostile THEN "-" ELSE s[i]]

IsSep(c) == c \in Whitespace \/ c = "-"

\* re.sub(r"[\s-]+", "-", name)
RECURSIVE CollapseSeps(_)
CollapseSeps(s) ==
    IF s = <<>> THEN <<>>
    ELSE IF IsSep(Head(s))
         THEN <<"-">> \o CollapseSeps(LStrip(Tail(s), Whitespace \cup {"-"}))
         ELSE <<Head(s)>> \o CollapseSeps(Tail(s))

sanitize_filename(name) ==
    LET n1 == Strip(CollapseSeps(ReplaceHostile(name)), StripChars)
        n2 == IF Len(n1) > max_length
              THEN RStrip(Slice(n1, max_length), StripChars) ELSE n1
    IN  IF n2 # <<>> THEN n2 ELSE Untitled

make_folder_name(doc) ==
    LET d == Slice(OrElse(doc.created_at, <<>>), DateLen)
        created == IF d # <<>> THEN d ELSE UnknownDate
    IN  created \o <<"_">> \o sanitize_filename(OrElse(doc.title, Untitled))

----------------------------------------------------------------------------
(* The store *)

\* the metadata dict save_meeting builds
MakeMetadata(doc) ==
    [id |-> doc.id, title |-> doc.title, created_at |-> doc.created_at,
     updated_at |-> doc.updated_at, people |-> doc.people,
     calendar_event |-> doc.google_calendar_event]

\* load_meeting_metadata: <<>> stands for the None it returns
load_meeting_metadata(dir) == dir.metadata

\* metadata.get("id", "").startswith(meeting_id), for a loaded metadata
MetadataMatches(dir, meeting_id) ==
    LET md == load_meeting_metadata(dir)
    IN  md # NoFile /\ md[1].id.t = "str" /\ StartsWith(md[1].id.s, meeting_id)

\* the document.json fallback
DocumentMatches(dir, meeting_id) ==
    /\ dir.document # NoFile
    /\ dir.document[1].id.t = "str"
    /\ StartsWith(dir.document[1].id.s, meeting_id)

\* the body of the loop over iterdir(): does this item make the loop return?
ItemMatches(dir, meeting_id) ==
    \/ Contains(dir.name, meeting_id) \/ StartsWith(dir.name, meeting_id)
    \/ MetadataMatches(dir, meeting_id)
    \/ DocumentMatches(dir, meeting_id)

\* find_meeting_dir: the index in r of the directory returned, 0 for None
find_meeting_dir(r, meeting_id) ==
    IF \E i \in 1..Len(r) : r[i].name = meeting_id
    THEN CHOOSE i \in 1..Len(r) : r[i].name = meeting_id
    ELSE IF \E i \in 1..Len(r) : ItemMatches(r[i], meeting_id)
         THEN CHOOSE i \in 1..Len(r) :
                /\ ItemMatches(r[i], meeting_id)
                /\ \A j \in 1..(i - 1) : ~ItemMatches(r[j], meeting_id)
         ELSE 0

NameIndex(r, name) ==
    IF \E i \in 1..Len(r) : r[i].name = name
    THEN CHOOSE i \in 1..Len(r) : r[i].name = name
    ELSE 0

\* doc.get("notes_markdown") or doc.get("notes_plain")
NotesOf(doc) ==
    IF Truthy(doc.notes_markdown) THEN doc.notes_markdown ELSE doc.notes_plain

\* transcript_data or doc.get("transcript") or doc.get("chapters", [])
RawTranscript(doc, transcript_data) ==
    IF transcript_data # <<>> THEN [segments |-> transcript_data, chapters |-> <<>>]
    ELSE IF doc.transcript # <<>> THEN [segments |-> doc.transcript, chapters |-> <<>>]
    ELSE [segments |-> <<>>, chapters |-> doc.chapters]

EmptyDir(name) ==
    [name |-> name, metadata |-> NoFile, transcript_md |-> NoFile,
     transcript_json |-> NoFile, document |-> NoFile, notes_md |-> NoFile]

\* a metadata.json written without the document's updated_at
WriteMetadataWithoutUpdatedAt(dir, doc) ==
    [dir EXCEPT !.metadata = File([MakeMetadata(doc) EXCEPT !.updated_at = Str(<<>>)])]

WriteMetadata(dir, doc) == [dir EXCEPT !.metadata = File(MakeMetadata(doc))]
WriteTranscriptMd(dir, doc, td) ==
    [dir EXCEPT !.transcript_md = File(format_transcript(doc, td))]
WriteTranscriptJson(dir, doc, td) ==
    [dir EXCEPT !.transcript_json = File(RawTranscript(doc, td))]
WriteDocument(dir, doc) == [dir EXCEPT !.document = File(doc)]
WriteNotes(dir, doc) ==
    IF Truthy(NotesOf(doc)) THEN [dir EXCEPT !.notes_md = File(NotesOf(doc).s)]
    ELSE dir

\* the writes in another order: metadata.json after the other files
WritePrefixMetadataLast(dir, doc, td, k) ==
    LET d1 == IF k >= 1 THEN WriteTranscriptMd(dir, doc, td) ELSE dir
        d2 == IF k >= 2 THEN WriteTranscriptJson(d1, doc, td) ELSE d1
        d3 == IF k >= 3 THEN WriteDocument(d2, doc) ELSE d2
        d4 == IF k >= 4 THEN WriteNotes(d3, doc) ELSE d3
    IN  IF k >= 5 THEN WriteMetadata(d4, doc) ELSE d4

\* lines 484-513 of save_meeting, stopped after the first k of the five
\* writes: metadata.json, transcript.md, transcript.json, document.json, notes.md
WritePrefix(dir, doc, td, k) ==
    LET d1 == IF k >= 1 THEN WriteMetadata(dir, doc) ELSE dir
        d2 == IF k >= 2 THEN WriteTranscriptMd(d1, doc, td) ELSE d1
        d3 == IF k >= 3 THEN WriteTranscriptJson(d2, doc, td) ELSE d2
        d4 == IF k >= 4 THEN WriteDocument(d3, doc) ELSE d3
    IN  IF k >= 5 THEN WriteNotes(d4, doc) ELSE d4

\* lines 484-513 of save_meeting: the five writes, in order
WriteFiles(dir, doc, td) ==
    WriteNotes(WriteDocument(WriteTranscriptJson(
        WriteTranscriptMd(WriteMetadata(dir, doc), doc, td), doc, td), doc), doc)

\* a save_meeting without the unchanged check of lines 465-470
SaveDecisionWithoutSkip(r, doc, force) ==
    IF ~Truthy(doc.id) THEN [kind |-> "noid", name |-> <<>>]
    ELSE LET e == find_meeting_dir(r, doc.id.s)
         IN  IF e # 0 THEN [kind |-> "write", name |-> r[e].name]
             ELSE [kind |-> "write", name |-> make_folder_name(doc)]

\* lines 459-477 of save_meeting: what the call decides before it writes.
\*   kind "noid" / "skip": return False;  kind "write": write into `name`
SaveDecision(r, doc, force) ==
    IF ~Truthy(doc.id) THEN [kind |-> "noid", name |-> <<>>]
    ELSE LET meeting_id == doc.id.s
             e == find_meeting_dir(r, meeting_id)
         IN  IF e # 0
             THEN IF /\ ~force
                     /\ load_meeting_metadata(r[e]) # NoFile
                     /\ load_meeting_metadata(r[e])[1].updated_at = doc.updated_at
                  THEN [kind |-> "skip", name |-> r[e].name]
                  ELSE [kind |-> "write", name |-> r[e].name]
             ELSE LET folder_name == make_folder_name(doc)
                  IN  IF NameIndex(r, folder_name) # 0
                      THEN [kind |-> "write",
                            name |-> folder_name \o <<"_">> \o Slice(meeting_id, IdPrefixLen)]
                      ELSE [kind |-> "write", name |-> folder_name]

\* s with x inserted so that it becomes element number p
InsertAt(s, p, x) == SubSeq(s, 1, p - 1) \o <<x>> \o SubSeq(s, p, Len(s))

\* meeting_dir.mkdir(parents=True, exist_ok=True): a new directory takes the
\* place p of the listing (the listing order of a directory is the file
\* system's choice); an existing one is left where it is
Mkdir(r, name, p) ==
    IF NameIndex(r, name) # 0 THEN r ELSE InsertAt(r, p, EmptyDir(name))

\* the whole of save_meeting on a store r: [r |-> the store after, ret |-> ...]
save_meeting(r, doc, td, force, p) ==
    LET dec == SaveDecision(r, doc, force)
    IN  IF dec.kind # "write" THEN [r |-> r, ret |-> FALSE, name |-> dec.name]
        ELSE LET r1 == Mkdir(r, dec.name, p)
                 i == NameIndex(r1, dec.name)
             IN  [r |-> [r1 EXCEPT ![i] = WriteFiles(r1[i], doc, td)],
                  ret |-> TRUE, name |-> dec.name]

----------------------------------------------------------------------------
(* Inputs *)

MaxDirs == 2

IdX == <<"x">>
IdXY == <<"x","y","1","2","3","4","5","6","7">>
IdQ == <<"q">>

TitleT == <<"T">>
TitleX == <<"x"," ","/">>

Jan15 == <<"2","0","2","5","-","0","1","-","1","5","T","1","0",":","0","0",":","0","0","Z">>
Jan16 == <<"2","0","2","5","-","0","1","-","1","6","T","0","9",":","3","0",":","0","0","Z">>

U1 == Str(<<"1">>)
U2 == Str(<<"2">>)

Alice == <<"A","l","i","c","e">>
Bob == <<"B","o","b">>
AliceBob ==
    [kind |-> "dict",
     creator |-> [kind |-> "dict", name |-> Str(Alice), email |-> None],
     members |-> <<[kind |-> "dict", name |-> Str(Bob), email |-> None]>>]

Hi == <<"h","i">>
SegMic == [source |-> "microphone", speaker |-> Absent, text |-> Hi]
SegSys == [source |-> "system", speaker |-> Absent, text |-> <<"y","o">>]
SegEmpty == [source |-> "system", speaker |-> Absent, text |-> <<>>]
ChapterA ==
    [title |-> Str(<<"A">>),
     transcript |-> <<[source |-> "", speaker |-> Str(Bob), text |-> Hi]>>]

Doc(id, title, created_at, updated_at, notes_markdown, notes_plain, transcript, chapters) ==
    [id |-> id, title |-> title, created_at |-> created_at,
     updated_at |-> updated_at, people |-> AliceBob,
     notes_markdown |-> notes_markdown, notes_plain |-> notes_plain,
     transcript |-> transcript, chapters |-> chapters,
     google_calendar_event |-> None]

NotesN == Str(<<"n">>)
NotesP == Str(<<"p">>)

\* the documents given to save_meeting
DocX1 == Doc(Str(IdX), Str(TitleT), Str(Jan15), U1, None, None, <<SegMic>>, <<>>)
DocX2 == Doc(Str(IdX), Str(TitleX), Str(Jan15), U2, None, None, <<SegMic>>, <<>>)
DocXNotes == Doc(Str(IdX), Str(TitleT), Str(Jan15), U1, NotesN, NotesP, <<SegMic>>, <<>>)
DocXY == Doc(Str(IdXY), Str(TitleT), Str(Jan15), U1, None, NotesP, <<>>, <<ChapterA>>)
DocQ == Doc(Str(IdQ), None, None, None, None, None, <<>>, <<>>)
DocNoId == Doc(None, Str(TitleT), Str(Jan15), U1, None, None, <<SegMic>>, <<>>)

StoreDocs == {DocX1, DocX2, DocXNotes, DocXY, DocQ, DocNoId}

\* the identifiers given to cmd_show / cmd_get
Identifiers == {IdX, IdXY, <<"2","0","2","5","-","0","1","-","1","5","_","T">>, <<"n","o">>}

----------------------------------------------------------------------------
(* The store as a state machine: any sequence of save_meeting calls (token  *)
(* None, so no transcript is fetched) and of lookups.                      *)

NoOp == [op |-> "none", doc |-> Doc(None, None, None, None, None, None, <<>>, <<>>),
         force |-> FALSE, ret |-> FALSE, name |-> <<>>, changed |-> FALSE]
NoRepeat == [same |-> FALSE, first |-> FALSE]
NoLookup == [valid |-> FALSE, id |-> <<>>, idx |-> 0]

StoreInit ==
    /\ root = <<>>
    /\ last = NoOp
    /\ repeat = NoRepeat
    /\ resolved = NoLookup
    /\ createdFor = {}

SyncIdle ==
    /\ sdocs = <<>>
    /\ si = 0
    /\ spc = "idle"
    /\ starget = <<>>
    /\ sfetched = <<>>
    /\ sfetches = 0
    /\ sforce = FALSE
    /\ synced = 0
    /\ skipped = 0
    /\ slog = <<>>

FilterIdle ==
    /\ fmeetings = <<>>
    /\ fpreds = <<>>
    /\ fres = <<>>

FormatIdle ==
    /\ tdoc = <<>>
    /\ tfetched = <<>>
    /\ tout = <<>>

Init == StoreInit /\ SyncIdle /\ FilterIdle /\ FormatIdle

\* save_meeting(doc, storage, token=None, force=force)
Save(doc, force, p) ==
    LET out == save_meeting(root, doc, <<>>, force, p)
    IN  /\ Len(out.r) <= MaxDirs
        /\ p = 1 \/ Len(out.r) > Len(root)
        /\ root' = out.r
        /\ last' = [op |-> "save", doc |-> doc, force |-> force, ret |-> out.ret,
                    name |-> out.name, changed |-> out.r # root]
        /\ repeat' = IF last.op = "save" /\ last.doc = doc /\ ~last.force /\ ~force
                     THEN [same |-> TRUE, first |-> last.ret]
                     ELSE NoRepeat
        /\ resolved' = NoLookup
        /\ createdFor' = IF out.ret /\ NameIndex(root, out.name) = 0
                         THEN createdFor \cup {<<out.name, doc.id.s, doc.title>>}
                         ELSE createdFor
        /\ UNCHANGED <<syncVars, filterVars, fmtVars>>

\* cmd_show / cmd_get: find_meeting_dir(storage, identifier)
Resolve(identifier) ==
    /\ resolved' = [valid |-> TRUE, id |-> identifier,
                    idx |-> find_meeting_dir(root, identifier)]
    /\ last' = NoOp
    /\ repeat' = NoRepeat
    /\ UNCHANGED <<root, createdFor, syncVars, filterVars, fmtVars>>

Next ==
    \/ \E doc \in StoreDocs, force \in BOOLEAN, p \in 1..(Len(root) + 1) :
          Save(doc, force, p)
    \/ \E identifier \in Identifiers : Resolve(identifier)

Spec == Init /\ [][Next]_vars

----------------------------------------------------------------------------
(* Properties of the store *)

\* the id in a directory's persisted metadata (None when there is none)
IdOf(dir) == IF dir.metadata = NoFile THEN None ELSE dir.metadata[1].id

\* the directory of r named name
DirNamed(r, name) == r[NameIndex(r, name)]

\* C1 as stated: of two successive saves of the same document with force=false,
\* the first returns True and the second returns False and changes nothing.
C1_FirstWritesSecondSkips ==
    (repeat.same /\ Truthy(last.doc.id))
        => (repeat.first /\ ~last.ret /\ ~last.changed)

\* C1 amended: of two successive saves of the same document (with an id) with
\* force=false, the second returns False and changes no file and creates no
\* directory, whatever the first returned; so at most one of the two writes.
C1_SecondSaveSkips ==
    (repeat.same /\ Truthy(last.doc.id)) => (~last.ret /\ ~last.changed)

\* a second save right after a first one that wrote
C1_Witness ==
    /\ repeat.same /\ repeat.first /\ Truthy(last.doc.id)
    /\ ~last.ret /\ NameIndex(root, last.name) # 0

\* C2: no two directories of the storage root have persisted metadata with
\* the same id.
C2_IdUnique ==
    \A i, j \in 1..Len(root) :
        (i # j /\ IdOf(root[i]).t = "str") => IdOf(root[i]) # IdOf(root[j])

\* C3: once a directory has been created for an id, every later save of that
\* id with a changed title that writes, writes into that directory (so no
\* second directory is created for the id and the name keeps the first slug).
C3_StickyDirectory ==
    (last.op = "save" /\ last.ret)
        => \A c \in createdFor :
              (c[2] = last.doc.id.s /\ c[3] # last.doc.title) => c[1] = last.name

\* C4: saving a document not yet in the store, whose slug names a directory
\* that holds a document with another id saved under that slug, gives a second
\* directory named slug_{first 8 characters of the id} holding the document,
\* and leaves the first directory as it was.
C4_Step ==
    \A i \in 1..Len(root) :
        ( /\ last'.op = "save"
          /\ Truthy(last'.doc.id)
          /\ \A k \in 1..Len(root) : IdOf(root[k]) # last'.doc.id
          /\ root[i].name = make_folder_name(last'.doc)
          /\ root[i].document # NoFile
          /\ make_folder_name(root[i].document[1]) = root[i].name
          /\ Len(root) < MaxDirs )
        => LET second == root[i].name \o <<"_">> \o Slice(last'.doc.id.s, IdPrefixLen)
           IN  /\ NameIndex(root', second) # 0
               /\ DirNamed(root', second).document = File(last'.doc)
               /\ DirNamed(root', root[i].name) = root[i]

\* C4: every step of the store gives the suffixed second directory (C4_Step).
C4_CollisionSuffix == [][C4_Step]_vars

\* C5: when one directory's name contains the identifier and a different
\* directory matches only by the id prefix in its metadata, the lookup returns
\* a directory whose name contains the identifier.
C5_NameMatchWins ==
    resolved.valid =>
        \A i, j \in 1..Len(root) :
            ( /\ i # j
              /\ Contains(root[i].name, resolved.id)
              /\ ~Contains(root[j].name, resolved.id)
              /\ MetadataMatches(root[j], resolved.id) )
            => /\ resolved.idx # 0
               /\ Contains(root[resolved.idx].name, resolved.id)

\* C6: a save of a document whose id some directory's metadata holds, with
\* force set or with an updated_at other than the persisted one, returns True
\* and rewrites metadata, transcript.md, transcript and document in that
\* directory; afterwards its metadata.updated_at is the incoming one.
C6_Step ==
    \A i \in 1..Len(root) :
        ( /\ last'.op = "save"
          /\ Truthy(last'.doc.id)
          /\ IdOf(root[i]) = last'.doc.id
          /\ (last'.force \/ root[i].metadata[1].updated_at # last'.doc.updated_at) )
        => LET d == DirNamed(root', root[i].name)
           IN  /\ last'.ret
               /\ d.metadata = File(MakeMetadata(last'.doc))
               /\ d.transcript_md = File(format_transcript(last'.doc, <<>>))
               /\ d.transcript_json = File(RawTranscript(last'.doc, <<>>))
               /\ d.document = File(last'.doc)
               /\ d.metadata[1].updated_at = last'.doc.updated_at

\* C6: every step of the store overwrites on change or force (C6_Step).
C6_OverwriteOnChangeOrForce == [][C6_Step]_vars

\* C7: a directory contains notes.md if and only if the document most recently
\* written into it has notes (stated for the directories that hold a document
\* of the id they were created for).
C7_NotesIffDocumentHasNotes ==
    \A i \in 1..Len(root) :
        ( /\ root[i].document # NoFile
          /\ \E c \in createdFor : c[1] = root[i].name /\ Str(c[2]) = root[i].document[1].id )
        => (root[i].notes_md # NoFile <=> Truthy(NotesOf(root[i].document[1])))

\* a save of a document with id X leaves every directory whose persisted
\* metadata id is another id as it was
C12_Step ==
    (last'.op = "save" /\ Truthy(last'.doc.id))
    => \A i \in 1..Len(root) :
          (IdOf(root[i]).t = "str" /\ IdOf(root[i]) # last'.doc.id)
          => \E j \in 1..Len(root') : root'[j] = root[i]

\* C12: every save step keeps the files of the directories of other ids
\* unchanged (C12_Step), also when X is a prefix of the other id or occurs in
\* the other directory's name.
C12_SaveFrame == [][C12_Step]_vars

----------------------------------------------------------------------------
(* The store when a save_meeting call can be stopped between two of its     *)
(* writes (the process is killed, or a write raises): the files written     *)
(* so far stay, the others are left as they were.                          *)

\* the number of writes a stopped call has completed: at least metadata.json,
\* at most all but notes.md
StoppedAfter == 1..4

\* the documents saved, and those whose save is stopped
CrashDocs == {DocX1, DocX2, DocXY}
StoppedDocs == {DocX1, DocX2}

\* save_meeting(doc, storage, token=None, force=force) stopped after k writes
Interrupt(doc, force, p, k) ==
    LET dec == SaveDecision(root, doc, force)
        r1 == Mkdir(root, dec.name, p)
        i == NameIndex(r1, dec.name)
    IN  /\ dec.kind = "write"
        /\ Len(r1) <= MaxDirs
        /\ p = 1 \/ Len(r1) > Len(root)
        /\ root' = [r1 EXCEPT ![i] = WritePrefix(r1[i], doc, <<>>, k)]
        /\ last' = [op |-> "interrupt", doc |-> doc, force |-> force, ret |-> FALSE,
                    name |-> dec.name, changed |-> root' # root]
        /\ repeat' = NoRepeat
        /\ resolved' = NoLookup
        /\ createdFor' = IF NameIndex(root, dec.name) = 0
                         THEN createdFor \cup {<<dec.name, doc.id.s, doc.title>>}
                         ELSE createdFor
        /\ UNCHANGED <<syncVars, filterVars, fmtVars>>

CrashNext ==
    \/ \E doc \in CrashDocs, force \in BOOLEAN, p \in 1..(Len(root) + 1) :
          Save(doc, force, p)
    \/ \E doc \in StoppedDocs, force \in BOOLEAN, p \in 1..(Len(root) + 1), k \in StoppedAfter :
          Interrupt(doc, force, p, k)

CrashSpec == Init /\ [][CrashNext]_vars

\* the save that follows a stopped save of the same id: unchanged and not
\* forced, it is skipped and nothing changes; forced or with another
\* updated_at, it rewrites the four files of the same directory
C14_Step ==
    (last.op = "interrupt" /\ last'.op = "save" /\ last'.doc.id = last.doc.id)
    => /\ (last'.doc = last.doc /\ ~last'.force)
             => (~last'.ret /\ root' = root)
       /\ (last'.force \/ last'.doc.updated_at # last.doc.updated_at)
             => /\ last'.ret
                /\ last'.name = last.name
                /\ LET d == DirNamed(root', last'.name)
                   IN  /\ d.metadata = File(MakeMetadata(last'.doc))
                       /\ d.transcript_md = File(format_transcript(last'.doc, <<>>))
                       /\ d.transcript_json = File(RawTranscript(last'.doc, <<>>))
                       /\ d.document = File(last'.doc)

\* C14: metadata.json, carrying the incoming updated_at, is written first, so
\* after a save stopped behind the metadata write a later non-forced save of
\* the same unchanged document is skipped and leaves the stale or missing
\* files as they are; a forced save or one with a changed updated_at rewrites
\* them (C14_Step).
C14_InterruptedWriteNotRepaired == [][C14_Step]_vars

\* a skipped save whose directory has the document's metadata.json but no
\* document.json: the rest of an earlier, stopped save
C14_Witness ==
    /\ last.op = "save" /\ ~last.force /\ ~last.ret
    /\ NameIndex(root, last.name) # 0
    /\ DirNamed(root, last.name).metadata = File(MakeMetadata(last.doc))
    /\ DirNamed(root, last.name).document = NoFile

----------------------------------------------------------------------------
(* cmd_sync: one run of the loop over the fetched documents.  save_meeting   *)
(* is taken in its three parts: the decision with mkdir (lines 459-479),    *)
(* the transcript fetch (line 482) and the writes (lines 484-515).          *)

MaxSyncDocs == 2

SyncDocs == {DocX1, DocX2, DocXY, DocNoId}

\* the lists fetch_documents can return
SyncLists == UNION { [1..n -> SyncDocs] : n \in 0..MaxSyncDocs }

\* the storage root before the run: empty, or left by an earlier save
SyncRoots == { <<>>, save_meeting(<<>>, DocX1, <<>>, FALSE, 1).r }

\* what the transcript endpoint does: an HTTP error, or a list of segments
FetchOutcomes ==
    { [ok |-> FALSE, body |-> <<>>],
      [ok |-> TRUE, body |-> <<>>],
      [ok |-> TRUE, body |-> <<SegSys, SegEmpty>>] }

\* a fetch_transcript that lets the HTTP error through
fetch_transcript_uncaught(outcome) ==
    IF outcome.ok THEN [raised |-> FALSE, value |-> outcome.body]
    ELSE [raised |-> TRUE, value |-> <<>>]

\* fetch_transcript: [raised |-> an exception leaves the function, value |-> ...]
fetch_transcript(outcome) ==
    IF outcome.ok THEN [raised |-> FALSE, value |-> outcome.body]
    ELSE [raised |-> FALSE, value |-> <<>>]

SyncInit ==
    /\ root \in SyncRoots
    /\ last = NoOp
    /\ repeat = NoRepeat
    /\ resolved = NoLookup
    /\ createdFor = {}
    /\ sdocs \in SyncLists
    /\ sforce \in BOOLEAN
    /\ si = 0
    /\ spc = "loop"
    /\ starget = <<>>
    /\ sfetched = <<>>
    /\ synced = 0
    /\ skipped = 0
    /\ slog = <<>>
    /\ sfetches = 0
    /\ FilterIdle
    /\ FormatIdle

LogEntry(ret, name, fetches, failed) ==
    [ret |-> ret, name |-> name, fetches |-> fetches, failed |-> failed]

\* lines 459-479: no id or unchanged: save_meeting returns False and cmd_sync
\* counts a skip; otherwise the directory is made and the fetch comes next
SyncDecide(p) ==
    /\ spc = "loop"
    /\ si < Len(sdocs)
    /\ LET doc == sdocs[si + 1]
           dec == SaveDecision(root, doc, sforce)
       IN  IF dec.kind # "write"
           THEN /\ skipped' = skipped + 1
                /\ si' = si + 1
                /\ slog' = Append(slog, LogEntry(FALSE, dec.name, 0, FALSE))
                /\ p = 1
                /\ UNCHANGED <<root, spc, starget, sfetched, synced>>
           ELSE /\ root' = Mkdir(root, dec.name, p)
                /\ p = 1 \/ NameIndex(root, dec.name) = 0
                /\ starget' = dec.name
                /\ spc' = "fetch"
                /\ UNCHANGED <<si, sfetched, synced, skipped, slog>>
    /\ UNCHANGED <<last, repeat, resolved, createdFor, sdocs, sfetches, sforce, filterVars, fmtVars>>

\* line 482: the token is set in cmd_sync, so the transcript is fetched
SyncFetch(outcome) ==
    /\ spc = "fetch"
    /\ sfetches' = sfetches + 1
    /\ LET res == fetch_transcript(outcome)
       IN  IF res.raised
           THEN /\ spc' = "aborted"
                /\ UNCHANGED sfetched
           ELSE /\ spc' = "write"
                /\ sfetched' = <<[failed |-> ~outcome.ok, value |-> res.value]>>
    /\ UNCHANGED <<storeVars, sdocs, si, starget, sforce, synced, skipped, slog, filterVars, fmtVars>>

\* lines 484-515, then lines 544-547 of cmd_sync
SyncWrite ==
    /\ spc = "write"
    /\ LET doc == sdocs[si + 1]
           i == NameIndex(root, starget)
       IN  root' = [root EXCEPT ![i] = WriteFiles(root[i], doc, sfetched[1].value)]
    /\ synced' = synced + 1
    /\ si' = si + 1
    /\ slog' = Append(slog, LogEntry(TRUE, starget, 1, sfetched[1].failed))
    /\ spc' = "loop"
    /\ sfetched' = <<>>
    /\ UNCHANGED <<last, repeat, resolved, createdFor, sdocs, starget, sfetches, sforce, skipped,
                   filterVars, fmtVars>>

\* line 553: the loop is over and the result is reported
SyncFinish ==
    /\ spc = "loop"
    /\ si = Len(sdocs)
    /\ spc' = "done"
    /\ UNCHANGED <<storeVars, sdocs, si, starget, sfetched, sfetches, sforce, synced, skipped, slog,
                   filterVars, fmtVars>>

SyncNext ==
    \/ \E p \in 1..(Len(root) + 1) : SyncDecide(p)
    \/ \E outcome \in FetchOutcomes : SyncFetch(outcome)
    \/ SyncWrite
    \/ SyncFinish

SyncSpec == SyncInit /\ [][SyncNext]_vars

\* the process is sequential and is not interrupted: every step that can be
\* taken is taken
SyncFairSpec == SyncSpec /\ WF_vars(SyncNext)

\* what holds of every state of a run: a document whose fetch failed was
\* written, right after its write its files are those of an empty fetched
\* transcript, and at the end every document was counted once
SyncSafe ==
    /\ \A i \in 1..Len(slog) : slog[i].failed => slog[i].ret
    /\ (spc = "loop" /\ si >= 1 /\ slog[si].failed)
          => LET d == DirNamed(root, slog[si].name)
                 doc == sdocs[si]
             IN  /\ d.transcript_json = File(RawTranscript(doc, <<>>))
                 /\ d.transcript_md = File(format_transcript(doc, <<>>))
                 /\ d.document = File(doc)
    /\ spc = "done"
          => /\ si = Len(sdocs)
             /\ Len(slog) = Len(sdocs)
             /\ synced + skipped = Len(sdocs)

\* C8: a failed transcript fetch is taken as an empty fetched transcript, the
\* document is still written, and the sync reaches its end with
\* synced + skipped equal to the number of documents.
C8_FetchFailureNonFatal == []SyncSafe /\ <>(spc = "done")

\* a finished sync of two documents in which the first one's fetch failed
C8_Witness ==
    /\ spc = "done"
    /\ Len(sdocs) = 2
    /\ slog[1].failed /\ slog[1].ret
    /\ synced + skipped = 2

\* the document has no id, or it is unchanged: the id resolves to a directory
\* whose persisted updated_at is the incoming one, and force is not set
NoIdOrUnchanged(r, doc, force) ==
    \/ ~Truthy(doc.id)
    \/ /\ ~force
       /\ LET e == find_meeting_dir(r, doc.id.s)
          IN  /\ e # 0
              /\ r[e].metadata # NoFile
              /\ r[e].metadata[1].updated_at = doc.updated_at

\* some directory of r2 holds files and is not a directory of r1
FilesWritten(r1, r2) ==
    \E j \in 1..Len(r2) :
        /\ r2[j] # EmptyDir(r2[j].name)
        /\ \A i \in 1..Len(r1) : r1[i] # r2[j]

\* every written document had one transcript request, and the request of the
\* document being written is the only other one
OneFetchPerWrite == sfetches = synced + (IF spc = "write" THEN 1 ELSE 0)

C13_Step ==
    /\ sfetches' # sfetches
          => /\ sfetches' = sfetches + 1
             /\ spc = "fetch"
             /\ ~NoIdOrUnchanged(root, sdocs[si + 1], sforce)
    /\ (spc = "loop" /\ si < Len(sdocs) /\ NoIdOrUnchanged(root, sdocs[si + 1], sforce))
          => /\ root' = root
             /\ sfetches' = sfetches
             /\ spc' = "loop"
             /\ skipped' = skipped + 1
    /\ FilesWritten(root, root')
          => /\ spc = "write"
             /\ sfetched # <<>>
             /\ synced' = synced + 1

\* C13: within a sync a transcript request is issued only for a document that
\* save has decided to write; a document with no id or an unchanged one causes
\* no request and no file write; each written document causes exactly one
\* request, and it has completed before any of the document's files is written.
C13_DecisionPrecedesFetch == []OneFetchPerWrite /\ [][C13_Step]_vars

\* a finished sync that skipped an unchanged document and wrote another one
C13_Witness ==
    /\ spc = "done"
    /\ Len(sdocs) = 2
    /\ Truthy(sdocs[1].id) /\ ~slog[1].ret
    /\ slog[2].ret
    /\ skipped = 1 /\ synced = 1 /\ sfetches = 1

----------------------------------------------------------------------------
(* Date helpers.  A date is [ok, ord]: ord is date.toordinal(), and ok is    *)
(* FALSE for the None that parse_date and get_meeting_date return.          *)

NoDate == [ok |-> FALSE, ord |-> 0]
Date(ord) == [ok |-> TRUE, ord |-> ord]

Digits == {"0", "1", "2", "3", "4", "5", "6", "7", "8", "9"}
DigitVal(c) ==
    CASE c = "0" -> 0 [] c = "1" -> 1 [] c = "2" -> 2 [] c = "3" -> 3
      [] c = "4" -> 4 [] c = "5" -> 5 [] c = "6" -> 6 [] c = "7" -> 7
      [] c = "8" -> 8 [] c = "9" -> 9

RECURSIVE ToInt(_)
ToInt(ds) == IF ds = <<>> THEN 0 ELSE 10 * ToInt(SubSeq(ds, 1, Len(ds) - 1)) + DigitVal(ds[Len(ds)])

AllDigits(ds) == ds # <<>> /\ \A i \in 1..Len(ds) : ds[i] \in Digits

\* s.split(sep) for a one-character sep
RECURSIVE SplitOn(_, _)
SplitOn(s, sep) ==
    IF \E i \in 1..Len(s) : s[i] = sep
    THEN LET i == CHOOSE k \in 1..Len(s) : s[k] = sep /\ \A j \in 1..(k - 1) : s[j] # sep
         IN  <<SubSeq(s, 1, i - 1)>> \o SplitOn(SubSeq(s, i + 1, Len(s)), sep)
    ELSE <<s>>

\* s.split(): the words between runs of whitespace
RECURSIVE Words(_)
Words(s) ==
    LET t == LStrip(s, Whitespace)
    IN  IF t = <<>> THEN <<>>
        ELSE IF \E i \in 1..Len(t) : t[i] \in Whitespace
             THEN LET i == CHOOSE k \in 1..Len(t) :
                             t[k] \in Whitespace /\ \A j \in 1..(k - 1) : t[j] \notin Whitespace
                  IN  <<SubSeq(t, 1, i - 1)>> \o Words(SubSeq(t, i + 1, Len(t)))
             ELSE <<t>>

IsLeap(y) == (y % 4 = 0 /\ y % 100 # 0) \/ y % 400 = 0

DaysInMonth(y, m) ==
    IF m \in {1, 3, 5, 7, 8, 10, 12} THEN 31
    ELSE IF m \in {4, 6, 9, 11} THEN 30
    ELSE IF IsLeap(y) THEN 29 ELSE 28

RECURSIVE DaysBeforeMonth(_, _)
DaysBeforeMonth(y, m) ==
    IF m <= 1 THEN 0 ELSE DaysBeforeMonth(y, m - 1) + DaysInMonth(y, m - 1)

\* date(y, m, d).toordinal()
Ordinal(y, m, d) ==
    365 * (y - 1) + ((y - 1) \div 4) - ((y - 1) \div 100) + ((y - 1) \div 400)
    + DaysBeforeMonth(y, m) + d

\* datetime.strptime(s, "%Y-%m-%d").date(), NoDate for the ValueError:
\* four digits, then one or two digits that make a month, then one or two
\* digits that make a day of that month, and nothing else
strptime_ymd(s) ==
    LET parts == SplitOn(s, "-")
    IN  IF /\ Len(parts) = 3
           /\ Len(parts[1]) = 4 /\ AllDigits(parts[1]) /\ ToInt(parts[1]) >= 1
           /\ Len(parts[2]) \in {1, 2} /\ AllDigits(parts[2])
           /\ ToInt(parts[2]) \in 1..12
           /\ Len(parts[3]) \in {1, 2} /\ AllDigits(parts[3])
           /\ ToInt(parts[3]) \in 1..DaysInMonth(ToInt(parts[1]), ToInt(parts[2]))
        THEN Date(Ordinal(ToInt(parts[1]), ToInt(parts[2]), ToInt(parts[3])))
        ELSE NoDate

WordToday == <<"t","o","d","a","y">>
WordYesterday == <<"y","e","s","t","e","r","d","a","y">>
WordLast == <<"l","a","s","t">>
WordWeek == <<"w","e","e","k">>
WordMonth == <<"m","o","n","t","h">>

\* parse_date, with datetime.now().date() given as today
parse_date(date_str, today) ==
    LET s == Strip(Lower(date_str), Whitespace)
        parts == Words(s)
    IN  IF s = WordToday THEN today
        ELSE IF s = WordYesterday THEN Date(today.ord - 1)
        ELSE IF StartsWith(s, WordLast) /\ Len(parts) >= 2 /\ Contains(parts[2], WordWeek)
             THEN Date(today.ord - 7)
        ELSE IF StartsWith(s, WordLast) /\ Len(parts) >= 2 /\ Contains(parts[2], WordMonth)
             THEN Date(today.ord - 30)
        ELSE strptime_ymd(s)

\* get_meeting_date: meeting.get("created_at", "")[:10] raises TypeError when
\* the stored created_at is null
get_meeting_date(m) ==
    IF m.created_at.t = "none" THEN [raised |-> TRUE, date |-> NoDate]
    ELSE LET created == Slice(m.created_at.s, DateLen)
         IN  [raised |-> FALSE,
              date |-> IF created = <<>> THEN NoDate ELSE strptime_ymd(created)]

----------------------------------------------------------------------------
(* Filtering *)

\* the keyword arguments of filter_meetings
NoPreds == [on_date |-> None, start_date |-> None, end_date |-> None,
            title |-> None, participant |-> None]

\* `parse_date(x) if x else None`
Target(v, today) == IF Truthy(v) THEN parse_date(v.s, today) ELSE NoDate

\* re.search(pattern, text, re.IGNORECASE) for a pattern of plain letters
re_search_ignorecase(pattern, text) == Contains(Lower(text), Lower(pattern))

\* one turn of the loop of filter_meetings: "raise", "drop" or "keep"
FilterOne(m, preds, today) ==
    LET md == get_meeting_date(m)
        target_date == Target(preds.on_date, today)
        target_start == Target(preds.start_date, today)
        target_end == Target(preds.end_date, today)
    IN  IF md.raised THEN "raise"
        ELSE IF target_date.ok /\ (~md.date.ok \/ md.date.ord # target_date.ord) THEN "drop"
        ELSE IF target_start.ok /\ (~md.date.ok \/ md.date.ord < target_start.ord) THEN "drop"
        ELSE IF target_end.ok /\ (~md.date.ok \/ md.date.ord > target_end.ord) THEN "drop"
        ELSE IF Truthy(preds.title) /\ m.title.t = "none" THEN "raise"
        ELSE IF Truthy(preds.title) /\ ~re_search_ignorecase(preds.title.s, m.title.s) THEN "drop"
        ELSE IF Truthy(preds.participant)
                /\ ~matches_participant(m.people, preds.participant.s) THEN "drop"
        ELSE "keep"

RECURSIVE FilterLoop(_, _, _)
FilterLoop(meetings, preds, today) ==
    IF meetings = <<>> THEN [raised |-> FALSE, list |-> <<>>]
    ELSE LET one == FilterOne(Head(meetings), preds, today)
             rest == FilterLoop(Tail(meetings), preds, today)
         IN  IF one = "raise" THEN [raised |-> TRUE, list |-> <<>>]
             ELSE IF rest.raised THEN rest
             ELSE IF one = "keep" THEN [raised |-> FALSE, list |-> <<Head(meetings)>> \o rest.list]
             ELSE rest

\* filter_meetings: [raised |-> a TypeError leaves the call, list |-> the result]
filter_meetings(meetings, preds, today) == FilterLoop(meetings, preds, today)

----------------------------------------------------------------------------
(* cmd_list: filter_meetings over metadata that save_meeting persisted,      *)
(* called with no predicate, with each of two predicates, and with both.    *)

MaxMeetings == 2

Standup == <<"S","t","a","n","d","u","p">>
TeamSync == <<"T","e","a","m"," ","S","y","n","c">>
Soon == <<"s","o","o","n">>
AlMail == <<"a","l","@","x",".","i","o">>
MailList ==
    [kind |-> "list", creator |-> NoPerson,
     members |-> <<[kind |-> "dict", name |-> None, email |-> Str(AlMail)]>>]

FDoc(title, created_at, people) ==
    [Doc(Str(IdQ), title, created_at, U1, None, None, <<>>, <<>>) EXCEPT !.people = people]

\* documents as the API can return them: any of title and created_at may be
\* null, and created_at may be a string that is no date
FilterDocs ==
    { FDoc(Str(Standup), Str(Jan15), AliceBob),
      FDoc(Str(TeamSync), Str(Jan16), MailList),
      FDoc(Str(Standup), Str(Jan16), NoPeople),
      FDoc(None, Str(Jan15), AliceBob),
      FDoc(Str(Standup), None, AliceBob),
      FDoc(Str(TeamSync), Str(Soon), MailList),
      FDoc(Str(Standup), Str(<<>>), AliceBob) }

\* the metadata.json contents get_all_meetings can load
FilterRecords == { MakeMetadata(d) : d \in FilterDocs }

FilterLists == UNION { [1..n -> FilterRecords] : n \in 0..MaxMeetings }

Pred(kind, value) == [kind |-> kind, value |-> value]

Day15 == Slice(Jan15, DateLen)
Day16 == Slice(Jan16, DateLen)

\* command line values of --date, --start, --end, --title, --participant
PredInputs ==
    { Pred("date", Day15), Pred("date", <<" ","T","o","d","a","y">>), Pred("date", Soon),
      Pred("start", Day16), Pred("start", WordYesterday),
      Pred("end", Day15), Pred("end", WordLast \o <<" ">> \o WordWeek),
      Pred("title", <<"s","t","a","n","d">>), Pred("title", <<"S","Y","N","C">>),
      Pred("participant", <<"a","l","i","c","e">>), Pred("participant", <<"A","L","@">>) }

KindOrder(k) ==
    CASE k = "date" -> 1 [] k = "start" -> 2 [] k = "end" -> 3
      [] k = "title" -> 4 [] k = "participant" -> 5

\* the keyword arguments kw with predicate p given too
With(kw, p) ==
    CASE p.kind = "date" -> [kw EXCEPT !.on_date = Str(p.value)]
      [] p.kind = "start" -> [kw EXCEPT !.start_date = Str(p.value)]
      [] p.kind = "end" -> [kw EXCEPT !.end_date = Str(p.value)]
      [] p.kind = "title" -> [kw EXCEPT !.title = Str(p.value)]
      [] p.kind = "participant" -> [kw EXCEPT !.participant = Str(p.value)]

Todays == { Date(Ordinal(2025, 1, 16)), Date(Ordinal(2025, 1, 22)) }

FilterInit ==
    /\ StoreInit
    /\ SyncIdle
    /\ FormatIdle
    /\ fmeetings \in FilterLists
    /\ fpreds \in { <<[a |-> a, b |-> b, today |-> t]>> :
                      a \in PredInputs, b \in PredInputs, t \in Todays }
    /\ KindOrder(fpreds[1].a.kind) < KindOrder(fpreds[1].b.kind)
    /\ fres = <<>>

\* lines 566-573, for the four choices of the keyword arguments
FilterApply ==
    /\ fres = <<>>
    /\ LET a == fpreds[1].a
           b == fpreds[1].b
           today == fpreds[1].today
       IN  fres' = <<[none |-> filter_meetings(fmeetings, NoPreds, today),
                      one |-> filter_meetings(fmeetings, With(NoPreds, a), today),
                      two |-> filter_meetings(fmeetings, With(NoPreds, b), today),
                      both |-> filter_meetings(fmeetings, With(With(NoPreds, a), b), today)]>>
    /\ UNCHANGED <<storeVars, syncVars, fmeetings, fpreds, fmtVars>>

FilterNext == FilterApply

FilterSpec == FilterInit /\ [][FilterNext]_vars

InList(m, list) == \E i \in 1..Len(list) : list[i] = m

InBothSingles(m) == InList(m, fres[1].one.list) /\ InList(m, fres[1].two.list)

\* C9: the result with both predicates is the list of the records that are in
\* both single-predicate results, in the input order.
C9_FilterComposition ==
    fres # <<>> =>
        /\ ~fres[1].one.raised /\ ~fres[1].two.raised /\ ~fres[1].both.raised
        /\ fres[1].both.list = SelectSeq(fmeetings, InBothSingles)

\* the same, for the calls in which no TypeError is raised
FilterCompositionWithoutError ==
    (fres # <<>> /\ ~fres[1].one.raised /\ ~fres[1].two.raised /\ ~fres[1].both.raised)
        => fres[1].both.list = SelectSeq(fmeetings, InBothSingles)

\* the record has no parseable created_at
Undated(m) ==
    \/ m.created_at.t = "none"
    \/ ~strptime_ymd(Slice(m.created_at.s, DateLen)).ok

\* the predicate is a date predicate that parse_date understands
DateActive(p, today) ==
    p.kind \in {"date", "start", "end"} /\ parse_date(p.value, today).ok

\* C10: a record without a parseable created_at is retained when no date
\* predicate is active and excluded when one is, and no call fails.
C10_UndatedRecords ==
    fres # <<>> =>
        \A i \in 1..Len(fmeetings) :
            Undated(fmeetings[i]) =>
                LET m == fmeetings[i]
                    a == fpreds[1].a
                    b == fpreds[1].b
                    today == fpreds[1].today
                IN  /\ ~fres[1].none.raised /\ InList(m, fres[1].none.list)
                    /\ ~fres[1].one.raised /\ ~fres[1].two.raised /\ ~fres[1].both.raised
                    /\ DateActive(a, today) => ~InList(m, fres[1].one.list)
                    /\ DateActive(b, today) => ~InList(m, fres[1].two.list)
                    /\ (DateActive(a, today) \/ DateActive(b, today))
                          => ~InList(m, fres[1].both.list)

\* the same, for the records whose created_at is a string
UndatedStringRecords ==
    fres # <<>> =>
        \A i \in 1..Len(fmeetings) :
            ( /\ Undated(fmeetings[i])
              /\ \A j \in 1..Len(fmeetings) :
                    fmeetings[j].created_at.t = "str" /\ fmeetings[j].title.t = "str" ) =>
                LET m == fmeetings[i]
                    a == fpreds[1].a
                    b == fpreds[1].b
                    today == fpreds[1].today
                IN  /\ ~fres[1].none.raised /\ InList(m, fres[1].none.list)
                    /\ ~fres[1].one.raised /\ ~fres[1].two.raised /\ ~fres[1].both.raised
                    /\ DateActive(a, today) => ~InList(m, fres[1].one.list)
                    /\ DateActive(b, today) => ~InList(m, fres[1].two.list)
                    /\ (DateActive(a, today) \/ DateActive(b, today))
                          => ~InList(m, fres[1].both.list)

----------------------------------------------------------------------------
(* format_transcript on its own: the function is applied to a document and  *)
(* a fetched transcript drawn from the sets below.                         *)

MaxSegs == 2

SegSpeaker == [source |-> "", speaker |-> Str(Bob), text |-> Hi]
SegSpeakerEmpty == [source |-> "", speaker |-> Str(Bob), text |-> <<>>]
SegNoSpeaker == [source |-> "", speaker |-> Absent, text |-> Hi]
SegNullSpeaker == [source |-> "", speaker |-> None, text |-> Hi]
SegBlankSpeaker == [source |-> "", speaker |-> Str(<<>>), text |-> Hi]

\* segments of the transcript endpoint and of doc["transcript"]
FlatSegs == {SegMic, SegSys, SegEmpty, SegSpeaker, SegSpeakerEmpty, SegNoSpeaker,
             SegNullSpeaker, SegBlankSpeaker}
FetchedLists == UNION { [1..n -> FlatSegs] : n \in 0..MaxSegs }
OwnLists == { <<>>, <<SegMic>>, <<SegEmpty>>, <<SegSpeaker, SegSpeakerEmpty>> }

ChapterB == [title |-> None, transcript |-> <<SegSpeakerEmpty, SegNoSpeaker>>]
ChapterLists == { <<>>, <<ChapterA>>, <<ChapterB>>, <<ChapterA, ChapterB>> }

FormatDocs ==
    { [Doc(Str(IdX), Str(TitleT), Str(Jan15), U1, None, None, own, chs)
          EXCEPT !.people = pp] :
      own \in OwnLists, chs \in ChapterLists, pp \in {AliceBob, NoPeople} }

FormatInit ==
    /\ StoreInit
    /\ SyncIdle
    /\ FilterIdle
    /\ tdoc \in { <<d>> : d \in FormatDocs }
    /\ tfetched \in FetchedLists
    /\ tout = <<>>

\* format_transcript(doc, transcript_data), as save_meeting calls it (line 497)
FormatApply ==
    /\ tout = <<>>
    /\ tout' = format_transcript(tdoc[1], tfetched)
    /\ UNCHANGED <<storeVars, syncVars, filterVars, tdoc, tfetched>>

FormatNext == FormatApply

FormatSpec == FormatInit /\ [][FormatNext]_vars

\* the lines of the body: those after the "---" separator
RECURSIVE BodyOf(_)
BodyOf(lines) ==
    IF lines = <<>> THEN <<>>
    ELSE IF Head(lines).k = "sep" THEN Tail(lines)
    ELSE BodyOf(Tail(lines))

IsSegLine(l) == l.k = "seg"

\* the label the flat form is said to give a segment
FlatLabel(seg, creator_name) ==
    IF seg.source = "microphone" THEN creator_name
    ELSE IF seg.source = "system" THEN Other
    ELSE IF Truthy(seg.speaker) THEN seg.speaker.s ELSE Unknown

\* the texts of all chapter segments, empty ones included, in order
RECURSIVE ChapterTexts(_)
ChapterTexts(chs) ==
    IF chs = <<>> THEN <<>>
    ELSE [i \in 1..Len(Head(chs).transcript) |-> Head(chs).transcript[i].text]
         \o ChapterTexts(Tail(chs))

\* the body follows the flat list (fetched first, else the document's own)
\* whenever one of them is non-empty, and the chapters otherwise
BodySelection(label(_, _)) ==
    tout # <<>> =>
        LET doc == tdoc[1]
            flat == IF tfetched # <<>> THEN tfetched ELSE doc.transcript
            body == BodyOf(tout)
            segLines == SelectSeq(body, IsSegLine)
        IN  IF flat # <<>>
            THEN LET creator_name == extract_people(doc.people)[1]
                     kept == SelectSeq(flat, LAMBDA g : g.text # <<>>)
                     expected == [i \in 1..Len(kept) |->
                                     Line("seg", label(kept[i], creator_name), kept[i].text)]
                 IN  body = expected
            ELSE [i \in 1..Len(segLines) |-> segLines[i].b] = ChapterTexts(doc.chapters)

\* C11: the body is the flat list (fetched first, else the document's own)
\* whenever one of them is non-empty, one line per segment with non-empty
\* text, labelled creator name / "Other" / the segment's speaker or
\* "Unknown"; only when both are empty it is the chapters, one line per
\* chapter segment, empty texts included.
C11_TranscriptBodySelection == BodySelection(FlatLabel)

\* the same with the label the code computes: the speaker value as it is
\* formatted when the key is present, "Unknown" when the key is missing
BodySelectionWithCodeLabel == BodySelection(FlatSpeaker)

====
